---------------------------- MODULE Spec2Model ----------------------------
(***************************************************************************)
(* School-cash-online order tooling: parse-sco.py (Order Parser) and       *)
(* group.py (Class Grouper).                                               *)
(*                                                                         *)
(* A Python str is modelled as a sequence of one-character strings, so     *)
(* that split, strip, lower, int() and the regular expression [a-z] are    *)
(* computed character by character, as the interpreter computes them.      *)
(***************************************************************************)
EXTENDS Integers, Sequences, FiniteSets, TLC

\* ------------------------------------------------------------------ bounds
MaxRows == 2
MaxStudents == 3
MaxCodeLen == 5

\* ------------------------------------------------------- character tables
UpperCase == <<"A","B","C","D","E","F","G","H","I","J","K","L","M",
               "N","O","P","Q","R","S","T","U","V","W","X","Y","Z">>
LowerCase == <<"a","b","c","d","e","f","g","h","i","j","k","l","m",
               "n","o","p","q","r","s","t","u","v","w","x","y","z">>
Digits == <<"0","1","2","3","4","5","6","7","8","9">>

\* The characters used, in code-point order (Python compares str by code point).
CodePoints == <<" ", "+", ",", "-">> \o Digits \o UpperCase \o LowerCase \o <<"é">>

Range(s) == {s[i] : i \in 1..Len(s)}

IndexOf(c, s) == CHOOSE i \in 1..Len(s) : s[i] = c

Ord(c) == IndexOf(c, CodePoints)

IsSpace(c) == c = " "

\* str.lower(), one character
LowerChar(c) == IF c \in Range(UpperCase) THEN LowerCase[IndexOf(c, UpperCase)] ELSE c

\* str.lower()
Lower(s) == [i \in 1..Len(s) |-> LowerChar(s[i])]

\* str.strip(): drops leading and trailing whitespace
RECURSIVE LStrip(_)
LStrip(s) == IF s # <<>> /\ IsSpace(Head(s)) THEN LStrip(Tail(s)) ELSE s

RECURSIVE RStrip(_)
RStrip(s) == IF s # <<>> /\ IsSpace(s[Len(s)]) THEN RStrip(SubSeq(s, 1, Len(s) - 1)) ELSE s

Strip(s) == RStrip(LStrip(s))

\* str.split(sep) for a one-character separator: every occurrence splits,
\* empty pieces are kept, a string without the separator gives one piece.
RECURSIVE Split(_, _)
Split(s, sep) ==
    IF sep \notin Range(s) THEN <<s>>
    ELSE LET i == CHOOSE k \in 1..Len(s) : s[k] = sep /\ \A j \in 1..(k - 1) : s[j] # sep
         IN  <<SubSeq(s, 1, i - 1)>> \o Split(SubSeq(s, i + 1, Len(s)), sep)

\* str.split() without argument: split on runs of whitespace, no empty pieces
RECURSIVE SplitWords(_)
SplitWords(s) ==
    LET t == LStrip(s)
    IN  IF t = <<>> THEN <<>>
        ELSE IF \A k \in 1..Len(t) : ~IsSpace(t[k]) THEN <<t>>
        ELSE LET i == CHOOSE k \in 1..Len(t) : IsSpace(t[k]) /\ \A j \in 1..(k - 1) : ~IsSpace(t[j])
             IN  <<SubSeq(t, 1, i - 1)>> \o SplitWords(SubSeq(t, i + 1, Len(t)))

\* int(str): surrounding whitespace is ignored, an optional sign, then one or
\* more decimal digits; anything else raises ValueError.
IsDigits(s) == s # <<>> /\ \A i \in 1..Len(s) : s[i] \in Range(Digits)

RECURSIVE DigitsValue(_)
DigitsValue(s) ==
    IF s = <<>> THEN 0
    ELSE 10 * DigitsValue(SubSeq(s, 1, Len(s) - 1)) + (IndexOf(s[Len(s)], Digits) - 1)

IntParses(s) ==
    LET t == Strip(s)
    IN  IF t # <<>> /\ Head(t) \in {"+", "-"} THEN IsDigits(Tail(t)) ELSE IsDigits(t)

IntValue(s) ==
    LET t == Strip(s)
    IN  IF Head(t) = "-" THEN 0 - DigitsValue(Tail(t))
        ELSE IF Head(t) = "+" THEN DigitsValue(Tail(t))
        ELSE DigitsValue(t)

\* str(int), as csv.DictWriter renders a number
RECURSIVE IntToStr(_)
IntToStr(n) ==
    IF n < 0 THEN <<"-">> \o IntToStr(0 - n)
    ELSE IF n < 10 THEN <<Digits[n + 1]>>
    ELSE IntToStr(n \div 10) \o <<Digits[(n % 10) + 1]>>

\* sum(seq)
RECURSIVE SumSeq(_)
SumSeq(s) == IF s = <<>> THEN 0 ELSE Head(s) + SumSeq(Tail(s))

\* The orderings a Python set of the given elements may be listed in.
Orderings(S) ==
    {s \in [1..Cardinality(S) -> S] : \A i, j \in 1..Cardinality(S) : i # j => s[i] # s[j]}

\* [x] * n : a list repeated n times is empty for n <= 0
Repeat(x, n) == [i \in 1..n |-> x]

\* ---------------------------------------------------------------------
\*                     parse-sco.py : Order Parser
\* ---------------------------------------------------------------------
VARIABLES
    data,          \* main: the rows csv.DictReader read from --src
    pc,            \* position of the run: "start", "parse", "done", "failed"
    err,           \* the exception that ended the run, "" when none
    kind,          \* the parser class picked: "Type1", "Type2", "" before
    item_options,  \* BaseParser.item_options
    n,             \* BaseParser.parse: rows of data consumed by the loop
    order,         \* BaseParser.parse: the OrderEntry of the row last extracted
    output,        \* BaseParser.parse: student number -> StudentEntry
    output_keys,   \* insertion order of the dict `output`
    out_file,      \* the --out file: [opened, rows]
    run,           \* 1 for the first run, 2 for the run on the permuted rows
    first          \* outcome of the first run, kept for comparison

KeyFirstName == <<"F","i","r","s","t"," ","N","a","m","e">>
KeyLastName == <<"L","a","s","t"," ","N","a","m","e">>
KeyTeacher == <<"T","e","a","c","h","e","r">>
KeyPayment == <<"P","a","y","m","e","n","t">>
Online == <<"O","n","l","i","n","e">>

\* ['cheese', 'pepperoni', 'halal', 'juice', 'yop']
PreferredOrder == << <<"c","h","e","e","s","e">>,
                     <<"p","e","p","p","e","r","o","n","i">>,
                     <<"h","a","l","a","l">>,
                     <<"j","u","i","c","e">>,
                     <<"y","o","p">> >>

\* sort_key: rank of the first word of the item that is a preferred keyword
RECURSIVE FirstKeyword(_)
FirstKeyword(words) ==
    IF words = <<>> THEN Len(PreferredOrder)
    ELSE IF Head(words) \in Range(PreferredOrder)
         THEN IndexOf(Head(words), PreferredOrder) - 1
         ELSE FirstKeyword(Tail(words))

sort_key(item) == FirstKeyword(SplitWords(Lower(item)))

\* sorted(options, key=sort_key): a stable sort
RECURSIVE InsertOption(_, _)
InsertOption(x, s) ==
    IF s = <<>> THEN <<x>>
    ELSE IF sort_key(x) < sort_key(Head(s)) THEN <<x>> \o s
    ELSE <<Head(s)>> \o InsertOption(x, Tail(s))

RECURSIVE _sort_item_options(_)
_sort_item_options(options) ==
    IF options = <<>> THEN <<>>
    ELSE InsertOption(options[Len(options)],
                      _sort_item_options(SubSeq(options, 1, Len(options) - 1)))

\* re.search(r'[a-z]', part)
HasLowerAZ(part) == \E i \in 1..Len(part) : part[i] \in Range(LowerCase)

\* a variant whose default is the first part
parse_teacher_default_first(value) ==
    LET parts == Split(value, "-")
    IN  IF \E i \in 1..Len(parts) : HasLowerAZ(parts[i])
        THEN LET i == CHOOSE k \in 1..Len(parts) :
                         HasLowerAZ(parts[k]) /\ \A j \in 1..(k - 1) : ~HasLowerAZ(parts[j])
             IN  [ok |-> TRUE, val |-> Strip(parts[i])]
        ELSE [ok |-> TRUE, val |-> Strip(parts[1])]

\* parse_teacher_from_class_name: [ok, val]; ok = FALSE is the IndexError of parts[1]
parse_teacher_from_class_name(value) ==
    LET parts == Split(value, "-")
    IN  IF \E i \in 1..Len(parts) : HasLowerAZ(parts[i])
        THEN LET i == CHOOSE k \in 1..Len(parts) :
                         HasLowerAZ(parts[k]) /\ \A j \in 1..(k - 1) : ~HasLowerAZ(parts[j])
             IN  [ok |-> TRUE, val |-> Strip(parts[i])]
        ELSE IF Len(parts) >= 2
        THEN [ok |-> TRUE, val |-> Strip(parts[2])]
        ELSE [ok |-> FALSE, val |-> <<>>]

NoOrder == [student_number |-> <<>>, first_name |-> <<>>, last_name |-> <<>>,
            class_name |-> <<>>, items |-> <<>>]

\* student_name[1].strip() of the pieces of row[name].split(',')
FirstNameOf(student_name) == Strip(student_name[2])

\* student_name[0].strip()
LastNameOf(student_name) == Strip(student_name[1])

\* The OrderEntry built from the name, homeroom and items of a row, or the
\* IndexError of a name without comma or of a class code without teacher.
MakeOrder(number, name, homeroom, items) ==
    LET student_name == Split(name, ",")
        teacher == parse_teacher_from_class_name(homeroom)
    IN  IF Len(student_name) < 2 THEN [err |-> "IndexError", order |-> NoOrder]
        ELSE IF ~teacher.ok THEN [err |-> "IndexError", order |-> NoOrder]
        ELSE [err |-> "",
              order |-> [student_number |-> number,
                         first_name |-> FirstNameOf(student_name),
                         last_name |-> LastNameOf(student_name),
                         class_name |-> teacher.val,
                         items |-> items]]

\* a variant that drops the empty pieces of the Options field
Type1ItemsNoEmpty(row) ==
    LET pieces == SelectSeq(Split(row["Options"], ","), LAMBDA x : Strip(x) # <<>>)
    IN  [i \in 1..Len(pieces) |-> Strip(pieces[i])]

\* [x.strip() for x in row['Options'].split(',')]
Type1Items(row) ==
    LET pieces == Split(row["Options"], ",")
    IN  [i \in 1..Len(pieces) |-> Strip(pieces[i])]

\* Type1Parser._parse_row
Type1_parse_row(row) ==
    MakeOrder(row["Student Number"], row["Student Name"], row["HomeroomName"],
              Type1Items(row))

\* a variant that ignores the quantity: one unit per row
Type2ItemsOnce(row, quantity) == <<row["choiceName"]>>

\* [row['choiceName']] * quantity
Type2Items(row, quantity) == Repeat(row["choiceName"], quantity)

\* Type2Parser._parse_row
Type2_parse_row(row) ==
    IF ~IntParses(row["quantity"]) THEN [err |-> "ValueError", order |-> NoOrder]
    ELSE MakeOrder(row["studentNumber"], row["studentName"], row["homeroomName"],
                   Type2Items(row, IntValue(row["quantity"])))

_parse_row(k, row) == IF k = "Type1" THEN Type1_parse_row(row) ELSE Type2_parse_row(row)

\* Type1Parser.__init__: every stripped piece of every Options field
Type1Options(rows) ==
    UNION {Range(Type1Items(rows[i])) : i \in 1..Len(rows)}

\* Type2Parser.__init__: every stripped choiceName
Type2Options(rows) == {Strip(rows[i]["choiceName"]) : i \in 1..Len(rows)}

\* StudentEntry(...) followed by entry.orders[option] = 0 for every option
NewEntry(o, options) ==
    [first_name |-> o.first_name, last_name |-> o.last_name, teacher |-> o.class_name,
     orders |-> [x \in Range(options) |-> 0], payment_method |-> Online]

\* a variant that starts every row from a new entry: the last row wins
EntryForFresh(o, out, options) == NewEntry(o, options)

\* a variant that refreshes the identity fields from the latest row
EntryForLatest(o, out, options) ==
    IF o.student_number \in DOMAIN out
    THEN [out[o.student_number] EXCEPT !.first_name = o.first_name,
                                       !.last_name = o.last_name,
                                       !.teacher = o.class_name]
    ELSE NewEntry(o, options)

\* the entry the loop body works on: the stored one, or a new one
EntryFor(o, out, options) ==
    IF o.student_number \in DOMAIN out THEN out[o.student_number] ELSE NewEntry(o, options)

\* for item in order.items: entry.orders[item] += 1   (KeyError on an unknown item)
RECURSIVE AddItems(_, _)
AddItems(orders, items) ==
    IF items = <<>> THEN [err |-> FALSE, orders |-> orders]
    ELSE IF Head(items) \notin DOMAIN orders THEN [err |-> TRUE, orders |-> orders]
    ELSE AddItems([orders EXCEPT ![Head(items)] = @ + 1], Tail(items))

\* dict insertion: a new key goes last, a known key keeps its place
DictPut(d, k, v) ==
    IF \E i \in 1..Len(d) : d[i][1] = k
    THEN [i \in 1..Len(d) |-> IF d[i][1] = k THEN <<k, v>> ELSE d[i]]
    ELSE Append(d, <<k, v>>)

RECURSIVE PutOrders(_, _, _)
PutOrders(d, orders, options) ==
    IF options = <<>> THEN d
    ELSE PutOrders(DictPut(d, Head(options),
                           IF orders[Head(options)] > 0
                           THEN IntToStr(orders[Head(options)]) ELSE <<>>),
                   orders, Tail(options))

\* StudentEntry.as_pretty_dict, as the sequence of (key, text written) pairs
as_pretty_dict(entry, options) ==
    DictPut(PutOrders(<< <<KeyFirstName, entry.first_name>>,
                         <<KeyLastName, entry.last_name>>,
                         <<KeyTeacher, entry.teacher>> >>,
                      entry.orders, options),
            KeyPayment, entry.payment_method)

\* writer.writeheader(); writer.writerows(student_entries)
WrittenRows(out, keys, options) ==
    LET student_entries == [i \in 1..Len(keys) |-> as_pretty_dict(out[keys[i]], options)]
        fieldnames == [i \in 1..Len(student_entries[1]) |-> student_entries[1][i][1]]
    IN  <<fieldnames>> \o
        [i \in 1..Len(keys) |->
            [c \in 1..Len(student_entries[i]) |-> student_entries[i][c][2]]]

\* ------------------------------------------------------------ input rows
\* (student number, "Last, First" name, class code) of the exported rows
Students ==
    { [num |-> <<"1">>, name |-> <<"D", ",", " ", "A">>, home |-> <<"R", "-", "a">>],
      [num |-> <<"1">>, name |-> <<"D", ",", "B", ",", "J">>, home |-> <<"b", " ", "-", "R">>],
      [num |-> <<"2">>, name |-> <<"E">>, home |-> <<"R", "-", "a">>],
      [num |-> <<"2">>, name |-> <<" ", "E", ",", "C", " ">>, home |-> <<"R", "-", "S">>],
      [num |-> <<"2">>, name |-> <<"E", ",", "C">>, home |-> <<"R">>] }

\* Options fields: "Yop, P", "P", ""
OptionFields == { <<"Y", "o", "p", ",", " ", "P">>, <<"P">>, <<>> }

\* (choiceName, quantity) pairs
Choices ==
    { << <<"Y", "o", "p">>, <<"2">> >>,
      << <<"Y", "o", "p">>, <<"-", "1">> >>,
      << <<"P">>, <<" ", "1">> >>,
      << <<" ", "P">>, <<"1">> >>,
      << <<" ", "P">>, <<"0">> >>,
      << <<"P">>, <<"x">> >> }

RowsA ==
    { ("Student Number" :> s.num) @@ ("Student Name" :> s.name) @@
      ("HomeroomName" :> s.home) @@ ("Options" :> o) : s \in Students, o \in OptionFields }

RowsB ==
    { ("studentNumber" :> s.num) @@ ("studentName" :> s.name) @@
      ("homeroomName" :> s.home) @@ ("choiceName" :> c[1]) @@ ("quantity" :> c[2])
      : s \in Students, c \in Choices }

\* rows of a file with neither marker column
RowsU == { ("Name" :> s.name) : s \in Students }

SeqsUpTo(S, k) == UNION {[1..m -> S] : m \in 0..k}

Inputs == SeqsUpTo(RowsA, MaxRows) \cup SeqsUpTo(RowsB, MaxRows) \cup SeqsUpTo(RowsU, MaxRows)

NoFile == [opened |-> FALSE, rows |-> <<>>]

VARIABLES
    teacher_order, \* group.py: the priority list imported from teacher_order
    g_src,         \* group.py main: the rows csv.DictReader read from --src
    g_pc,          \* position of the grouper's run: "start", "computed", "done", "failed"
    g_data,        \* main: `data` after the filter and the sort
    by_teacher,    \* main: teacher -> rows, in insertion order, as [teacher, cls] records
    class_totals,  \* main: the summary rows
    g_file         \* the grouper's --out file: [opened, fieldnames, rows]

VARIABLES
    value,         \* the class code given to parse_teacher_from_class_name
    result         \* [called, ok, val]: what the call gave

pvars == <<data, pc, err, kind, item_options, n, order, output, output_keys,
           out_file, run, first>>

gvars == <<teacher_order, g_src, g_pc, g_data, by_teacher, class_totals, g_file>>

tvars == <<value, result>>

PInit ==
    /\ data \in Inputs
    /\ pc = "start"
    /\ err = ""
    /\ kind = ""
    /\ item_options = <<>>
    /\ n = 0
    /\ order = NoOrder
    /\ output = <<>>
    /\ output_keys = <<>>
    /\ out_file = NoFile
    /\ run = 1
    /\ first = [pc |-> "", output |-> <<>>]

Fail(e) ==
    /\ pc' = "failed"
    /\ err' = e

\* main, lines 178-184, with the parser's constructor: pick the layout by the
\* first row's columns and build the item catalog.
Detect ==
    /\ pc = "start"
    /\ IF data = <<>>
       THEN Fail("IndexError") /\ UNCHANGED <<kind, item_options>>
       ELSE IF "Options" \in DOMAIN data[1]
       THEN /\ kind' = "Type1"
            /\ \E opts \in Orderings(Type1Options(data)) :
                   item_options' = _sort_item_options(opts)
            /\ pc' = "parse"
            /\ UNCHANGED err
       ELSE IF "choiceName" \in DOMAIN data[1]
       THEN /\ kind' = "Type2"
            /\ \E opts \in Orderings(Type2Options(data)) :
                   item_options' = _sort_item_options(opts)
            /\ pc' = "parse"
            /\ UNCHANGED err
       ELSE Fail("RuntimeError") /\ UNCHANGED <<kind, item_options>>
    /\ UNCHANGED <<data, n, order, output, output_keys, out_file, run, first>>
    /\ UNCHANGED <<gvars, tvars>>

\* BaseParser.parse, one iteration of the loop over self.data
ParseRow ==
    /\ pc = "parse"
    /\ n < Len(data)
    /\ LET r == _parse_row(kind, data[n + 1])
           o == r.order
           known == o.student_number \in DOMAIN output
           entry == EntryFor(o, output, item_options)
           added == AddItems(entry.orders, o.items)
       IN  IF r.err # ""
           THEN Fail(r.err) /\ UNCHANGED <<n, order, output, output_keys>>
           ELSE IF added.err
           THEN /\ Fail("KeyError")
                /\ order' = o
                \* a stored entry is updated in place up to the unknown item
                /\ output' = IF known
                             THEN [output EXCEPT ![o.student_number].orders = added.orders]
                             ELSE output
                /\ UNCHANGED <<n, output_keys>>
           ELSE /\ order' = o
                /\ output' = [k \in DOMAIN output \cup {o.student_number} |->
                                 IF k = o.student_number
                                 THEN [entry EXCEPT !.orders = added.orders]
                                 ELSE output[k]]
                /\ output_keys' = IF known THEN output_keys
                                  ELSE Append(output_keys, o.student_number)
                /\ n' = n + 1
                /\ UNCHANGED <<pc, err>>
    /\ UNCHANGED <<data, kind, item_options, out_file, run, first>>
    /\ UNCHANGED <<gvars, tvars>>

\* main, lines 188-192: the loop is over, the output file is opened and written
WriteOutput ==
    /\ pc = "parse"
    /\ n = Len(data)
    /\ IF output_keys = <<>>
       THEN /\ Fail("IndexError")
            /\ out_file' = [opened |-> TRUE, rows |-> <<>>]
       ELSE /\ out_file' = [opened |-> TRUE,
                            rows |-> WrittenRows(output, output_keys, item_options)]
            /\ pc' = "done"
            /\ UNCHANGED err
    /\ UNCHANGED <<data, kind, item_options, n, order, output, output_keys, run, first>>
    /\ UNCHANGED <<gvars, tvars>>

RowOrders(k) == {p \in [1..k -> 1..k] : \A i, j \in 1..k : i # j => p[i] # p[j]}

\* main run again on the same rows in another order
Rerun ==
    /\ pc \in {"done", "failed"}
    /\ run = 1
    /\ \E p \in RowOrders(Len(data)) : data' = [i \in 1..Len(data) |-> data[p[i]]]
    /\ first' = [pc |-> pc, output |-> output]
    /\ run' = 2
    /\ pc' = "start"
    /\ err' = ""
    /\ kind' = ""
    /\ item_options' = <<>>
    /\ n' = 0
    /\ order' = NoOrder
    /\ output' = <<>>
    /\ output_keys' = <<>>
    /\ out_file' = NoFile
    /\ UNCHANGED <<gvars, tvars>>

\* ---------------------------------------------------------------------
\*                       group.py : Class Grouper
\* ---------------------------------------------------------------------
\* header of the parser's output file, the grouper's input
Fields == <<"First Name", "Last Name", "Teacher", "Yop", "Payment">>

GRow(fn, ln, t, y) ==
    ("First Name" :> fn) @@ ("Last Name" :> ln) @@ ("Teacher" :> t) @@
    ("Yop" :> y) @@ ("Payment" :> Online)

\* rows of the input file: two classes, a shared first name, a non-numeric
\* count, a numeric first name, a negative count, an empty first name and an
\* empty teacher
GroupRows ==
    { GRow(<<"A">>, <<"D">>, <<"S">>, <<"1">>),
      GRow(<<"B">>, <<"D">>, <<"S">>, <<"2">>),
      GRow(<<"A">>, <<"E">>, <<"S">>, <<"x">>),
      GRow(<<"A">>, <<"D">>, <<"J">>, <<>>),
      GRow(<<"7">>, <<"D">>, <<"J">>, <<"1">>),
      GRow(<<"B">>, <<"E">>, <<"J">>, <<"-", "1">>),
      GRow(<<>>, <<"D">>, <<"S">>, <<"1">>),
      GRow(<<"A">>, <<"D">>, <<>>, <<"1">>) }

\* priority lists over the two teachers, each teacher listed at most once
TeacherOrders ==
    { <<>>, << <<"S">> >>, << <<"J">> >>, << <<"S">>, <<"J">> >>, << <<"J">>, <<"S">> >> }

\* teacher_order_map.get(x['Teacher'], len(teacher_order))
TeacherRank(t) ==
    IF t \in Range(teacher_order)
    THEN (CHOOSE i \in 1..Len(teacher_order) :
              teacher_order[i] = t /\ \A j \in (i + 1)..Len(teacher_order) : teacher_order[j] # t) - 1
    ELSE Len(teacher_order)

\* a < b for two str: lexicographic by code point
RECURSIVE StrLess(_, _)
StrLess(a, b) ==
    IF b = <<>> THEN FALSE
    ELSE IF a = <<>> THEN TRUE
    ELSE IF Head(a) = Head(b) THEN StrLess(Tail(a), Tail(b))
    ELSE Ord(Head(a)) < Ord(Head(b))

\* a variant of the sort key without the last name
KeyLessNoLastName(a, b) ==
    \/ TeacherRank(a["Teacher"]) < TeacherRank(b["Teacher"])
    \/ /\ TeacherRank(a["Teacher"]) = TeacherRank(b["Teacher"])
       /\ StrLess(a["First Name"], b["First Name"])

\* key(a) < key(b) for the key (rank of the teacher, First Name, Last Name)
KeyLess(a, b) ==
    \/ TeacherRank(a["Teacher"]) < TeacherRank(b["Teacher"])
    \/ /\ TeacherRank(a["Teacher"]) = TeacherRank(b["Teacher"])
       /\ \/ StrLess(a["First Name"], b["First Name"])
          \/ /\ a["First Name"] = b["First Name"]
             /\ StrLess(a["Last Name"], b["Last Name"])

\* sorted(data, key=...): a stable sort
RECURSIVE InsertRow(_, _)
InsertRow(x, s) ==
    IF s = <<>> THEN <<x>>
    ELSE IF KeyLess(x, Head(s)) THEN <<x>> \o s
    ELSE <<Head(s)>> \o InsertRow(x, Tail(s))

RECURSIVE SortRows(_)
SortRows(rows) ==
    IF rows = <<>> THEN <<>>
    ELSE InsertRow(rows[Len(rows)], SortRows(SubSeq(rows, 1, Len(rows) - 1)))

\* the filter of line 31
Wanted(x) == x["Teacher"] # <<>> /\ x["First Name"] # <<>>

FilterRows(rows) == SelectSeq(rows, Wanted)

\* by_teacher[d['Teacher']].append(d)
AddToClass(groups, d) ==
    IF \E i \in 1..Len(groups) : groups[i].teacher = d["Teacher"]
    THEN [i \in 1..Len(groups) |->
             IF groups[i].teacher = d["Teacher"]
             THEN [groups[i] EXCEPT !.cls = Append(@, d)] ELSE groups[i]]
    ELSE Append(groups, [teacher |-> d["Teacher"], cls |-> <<d>>])

RECURSIVE SplitByTeacher(_)
SplitByTeacher(rows) ==
    IF rows = <<>> THEN <<>>
    ELSE AddToClass(SplitByTeacher(SubSeq(rows, 1, Len(rows) - 1)), rows[Len(rows)])

make_empty_entry(template) == [k \in DOMAIN template |-> <<>>]

\* the counts added to sums[key]: the values that int() accepts and are not zero
CountsOf(cls, key) ==
    SelectSeq([i \in 1..Len(cls) |->
                  IF IntParses(cls[i][key]) THEN IntValue(cls[i][key]) ELSE 0],
              LAMBDA c : c # 0)

\* the summary row of a class as csv.DictWriter writes it: a column no count
\* was added to stays empty, the Teacher column is set last
Summary(teacher, cls) ==
    [k \in DOMAIN cls[1] |->
        IF k = "Teacher" THEN teacher
        ELSE IF CountsOf(cls, k) = <<>> THEN <<>>
        ELSE IntToStr(SumSeq(CountsOf(cls, k)))]

RECURSIVE Concat(_)
Concat(ss) == IF ss = <<>> THEN <<>> ELSE Head(ss) \o Concat(Tail(ss))

\* a variant that writes each summary row right after its class
RowsInterleaved(groups, totals) ==
    Concat([i \in 1..Len(groups) |-> groups[i].cls \o <<totals[i]>>])

\* writer.writerows(cls) for every class, then writer.writerows(class_totals)
RowsWritten(groups, totals) ==
    Concat([i \in 1..Len(groups) |-> groups[i].cls]) \o totals

GInit ==
    /\ teacher_order \in TeacherOrders
    /\ g_src \in SeqsUpTo(GroupRows, MaxStudents)
    /\ g_pc = "start"
    /\ g_data = <<>>
    /\ by_teacher = <<>>
    /\ class_totals = <<>>
    /\ g_file = [opened |-> FALSE, fieldnames |-> <<>>, rows |-> <<>>]

\* main, lines 28-66: filter, sort, split by teacher, totals and blank rows
GroupCompute ==
    /\ g_pc = "start"
    /\ LET sorted == SortRows(FilterRows(g_src))
           groups == SplitByTeacher(sorted)
       IN  /\ g_data' = sorted
           /\ by_teacher' =
                  [i \in 1..Len(groups) |->
                      [groups[i] EXCEPT !.cls = @ \o <<make_empty_entry(@[1]),
                                                       make_empty_entry(@[1])>>]]
           /\ class_totals' =
                  [i \in 1..Len(groups) |-> Summary(groups[i].teacher, groups[i].cls)]
    /\ g_pc' = "computed"
    /\ UNCHANGED <<teacher_order, g_src, g_file>>
    /\ UNCHANGED <<pvars, tvars>>

\* main, lines 68-73: open(out, 'w'), then the header from data[0] and the rows
GroupWrite ==
    /\ g_pc = "computed"
    /\ IF g_data = <<>>
       THEN /\ g_file' = [opened |-> TRUE, fieldnames |-> <<>>, rows |-> <<>>]
            /\ g_pc' = "failed"
       ELSE /\ g_file' = [opened |-> TRUE, fieldnames |-> Fields,
                          rows |-> RowsWritten(by_teacher, class_totals)]
            /\ g_pc' = "done"
    /\ UNCHANGED <<teacher_order, g_src, g_data, by_teacher, class_totals>>
    /\ UNCHANGED <<pvars, tvars>>

\* ---------------------------------------------------------------------
\*          parse_teacher_from_class_name as a function of its own
\* ---------------------------------------------------------------------
CodeChars == {"A", "a", "-", " ", "é"}

TInit ==
    /\ value \in SeqsUpTo(CodeChars, MaxCodeLen)
    /\ result = [called |-> FALSE, ok |-> FALSE, val |-> <<>>]

CallParseTeacher ==
    /\ ~result.called
    /\ LET r == parse_teacher_from_class_name(value)
       IN  result' = [called |-> TRUE, ok |-> r.ok, val |-> r.val]
    /\ UNCHANGED value
    /\ UNCHANGED <<pvars, gvars>>

\* ---------------------------------------------------------------------
\*                          specifications
\* ---------------------------------------------------------------------
vars == <<pvars, gvars, tvars>>

\* a stage that is not run
PIdle ==
    /\ data = <<>> /\ pc = "off" /\ err = "" /\ kind = "" /\ item_options = <<>>
    /\ n = 0 /\ order = NoOrder /\ output = <<>> /\ output_keys = <<>>
    /\ out_file = NoFile /\ run = 1 /\ first = [pc |-> "", output |-> <<>>]

GIdle ==
    /\ teacher_order = <<>> /\ g_src = <<>> /\ g_pc = "off" /\ g_data = <<>>
    /\ by_teacher = <<>> /\ class_totals = <<>>
    /\ g_file = [opened |-> FALSE, fieldnames |-> <<>>, rows |-> <<>>]

TIdle ==
    /\ value = <<>>
    /\ result = [called |-> FALSE, ok |-> FALSE, val |-> <<>>]

\* the Order Parser run on an input file, then on a permutation of its rows
Init == PInit /\ GIdle /\ TIdle

Next ==
    \/ Detect
    \/ ParseRow
    \/ WriteOutput
    \/ Rerun

Spec == Init /\ [][Next]_vars

\* the Class Grouper run on an input file
InitGroup == PIdle /\ GInit /\ TIdle

NextGroup ==
    \/ GroupCompute
    \/ GroupWrite

SpecGroup == InitGroup /\ [][NextGroup]_vars

\* parse_teacher_from_class_name applied to a class code
InitTeacher == PIdle /\ GIdle /\ TInit

NextTeacher == CallParseTeacher

SpecTeacher == InitTeacher /\ [][NextTeacher]_vars

\* ---------------------------------------------------------------------
\*                    properties of the Order Parser
\* ---------------------------------------------------------------------
RECURSIVE SumSet(_)
SumSet(S) == IF S = {} THEN 0 ELSE LET x == CHOOSE y \in S : TRUE IN x[2] + SumSet(S \ {x})

\* parse() has returned: the loop consumed every row without an exception
ParseCompleted == kind # "" /\ pc \in {"parse", "done"} /\ n = Len(data)

\* count of label L in one StudentEntry (a label that is no key counts zero)
OrdersOf(id, L) == IF L \in DOMAIN output[id].orders THEN output[id].orders[L] ELSE 0

\* sum of orders[L] over all StudentEntry records
CountOf(L) == SumSet({<<id, OrdersOf(id, L)>> : id \in DOMAIN output})

\* every label a claim may ask about: the raw and the stripped labels of the rows
ChoiceLabels ==
    {data[i]["choiceName"] : i \in 1..Len(data)} \cup
    {Strip(data[i]["choiceName"]) : i \in 1..Len(data)}

QuantitySum(L) ==
    SumSeq([i \in 1..Len(data) |->
               IF data[i]["choiceName"] = L THEN IntValue(data[i]["quantity"]) ELSE 0])

NonNegQuantitySum(L) ==
    SumSeq([i \in 1..Len(data) |->
               IF data[i]["choiceName"] = L /\ IntValue(data[i]["quantity"]) > 0
               THEN IntValue(data[i]["quantity"]) ELSE 0])

\* C1 (as stated): for a Layout-B input on which parse() completes, for every
\* label L the sum of orders[L] over all StudentEntry records equals the sum
\* of quantity over the rows whose choiceName is L.
C1_CountsEqualQuantities ==
    (kind = "Type2" /\ ParseCompleted) =>
        \A L \in ChoiceLabels : CountOf(L) = QuantitySum(L)

\* C1 (amended): for a Layout-B input on which parse() completes, for every
\* label L the sum of orders[L] over all StudentEntry records equals the sum,
\* over the rows whose choiceName is L, of the quantities that are positive
\* (a row with a negative quantity adds nothing).
C1_CountsEqualPositiveQuantities ==
    (kind = "Type2" /\ ParseCompleted) =>
        \A L \in ChoiceLabels : CountOf(L) = NonNegQuantitySum(L)

\* a completed Layout-B parse of a positive and a negative quantity
C1_Witness ==
    /\ kind = "Type2" /\ ParseCompleted
    /\ \E i, j \in 1..Len(data) :
          /\ IntValue(data[i]["quantity"]) < 0
          /\ IntValue(data[j]["quantity"]) > 0
    /\ \E L \in ChoiceLabels : CountOf(L) > 0

\* number of comma-separated tokens of an Options field: one more than its commas
TokenCount(s) == 1 + Cardinality({i \in 1..Len(s) : s[i] = ","})

TotalItems ==
    SumSet({<<id, SumSet({<<L, output[id].orders[L]>> : L \in DOMAIN output[id].orders})>>
            : id \in DOMAIN output})

\* C2: for a Layout-A input on which parse() completes, the sum of all item
\* counts over all StudentEntry records equals the number of comma-separated
\* tokens over the Options fields of all rows.
C2_TotalEqualsTokens ==
    (kind = "Type1" /\ ParseCompleted) =>
        TotalItems = SumSeq([i \in 1..Len(data) |-> TokenCount(data[i]["Options"])])

\* a completed Layout-A parse with two students, an empty Options field included
C2_Witness ==
    /\ kind = "Type1" /\ ParseCompleted
    /\ Cardinality(DOMAIN output) = 2
    /\ \E i \in 1..Len(data) : data[i]["Options"] = <<>>
    /\ TotalItems >= 2

\* C3: the run on a permutation of the rows ends as the run on the rows did
\* and, when parse() completes, yields the same student identifiers and for
\* each identifier the same count of every item label.
C3_OrderIndependent ==
    (run = 2 /\ (pc = "failed" \/ ParseCompleted)) =>
        /\ (pc = "failed") <=> (first.pc = "failed")
        /\ ParseCompleted =>
              /\ DOMAIN output = DOMAIN first.output
              /\ \A id \in DOMAIN output :
                    /\ DOMAIN output[id].orders = DOMAIN first.output[id].orders
                    /\ \A L \in DOMAIN output[id].orders :
                          output[id].orders[L] = first.output[id].orders[L]

\* the second run completed on rows in another order, a student having two rows
C3_Witness ==
    /\ run = 2 /\ pc = "done"
    /\ Len(data) = 2 /\ data[1] # data[2]
    /\ Cardinality(DOMAIN output) = 1
    /\ \E id \in DOMAIN output : output[id].teacher # first.output[id].teacher
    /\ \E L \in UNION {DOMAIN output[id].orders : id \in DOMAIN output} : CountOf(L) > 0

\* the row whose extraction gave `order`
OrderRow == IF err = "KeyError" THEN data[n + 1] ELSE data[n]

NameOf(row) == IF kind = "Type1" THEN row["Student Name"] ELSE row["studentName"]

FirstComma(s) == CHOOSE k \in 1..Len(s) : s[k] = "," /\ \A j \in 1..(k - 1) : s[j] # ","

\* C8: the name field is split on its first comma only: last name is the
\* trimmed text before it, first name the trimmed whole of the text after it
\* (later commas included); a row whose name has no comma gives an error and
\* no OrderLineItem.
C8_SplitOnFirstComma ==
    /\ order # NoOrder =>
          LET name == NameOf(OrderRow)
          IN  /\ "," \in Range(name)
              /\ order.last_name = Strip(SubSeq(name, 1, FirstComma(name) - 1))
              /\ order.first_name = Strip(SubSeq(name, FirstComma(name) + 1, Len(name)))
    /\ \A i \in 1..n : kind # "" => "," \in Range(NameOf(data[i]))

\* the labels observed in the input, trimmed
ObservedLabels ==
    IF kind = "Type1"
    THEN UNION {{Strip(t) : t \in Range(Split(data[i]["Options"], ","))} : i \in 1..Len(data)}
    ELSE {Strip(data[i]["choiceName"]) : i \in 1..Len(data)}

KeySetIsCatalog ==
    kind # "" =>
        /\ Range(item_options) = ObservedLabels
        /\ \A id \in DOMAIN output : DOMAIN output[id].orders = ObservedLabels

FirstSeenWins ==
    run' = run =>
        \A id \in DOMAIN output :
            /\ id \in DOMAIN output'
            /\ output'[id].first_name = output[id].first_name
            /\ output'[id].last_name = output[id].last_name
            /\ output'[id].teacher = output[id].teacher
            /\ output'[id].payment_method = output[id].payment_method

\* C10: once a StudentEntry exists for an identifier, later rows leave its
\* first name, last name, teacher and payment method unchanged; and at every
\* point of the run every StudentEntry has the same item-label key set, the
\* catalog of the labels observed in the input.
C10_FirstSeenAndKeySet == [](KeySetIsCatalog) /\ [][FirstSeenWins]_vars

\* a second row of a student, with another name and teacher, has been added
C10_Witness ==
    /\ pc = "parse" /\ n = 2
    /\ Cardinality(DOMAIN output) = 1
    /\ \E id \in DOMAIN output :
          /\ output[id].first_name # order.first_name
          /\ output[id].teacher # order.class_name
          /\ \E L \in DOMAIN output[id].orders : output[id].orders[L] >= 2

\* ---------------------------------------------------------------------
\*                    properties of the Class Grouper
\* ---------------------------------------------------------------------
BlankRow == [k \in Range(Fields) |-> <<>>]

\* the teachers of the groups, in group order
GroupTeachers == [i \in 1..Len(by_teacher) |-> by_teacher[i].teacher]

\* the student rows of a teacher, in sorted order
StudentRowsOf(t) == SelectSeq(g_data, LAMBDA x : x["Teacher"] = t)

\* C4 (as stated): in the output every group's student rows are followed by
\* exactly two blank rows and then by that group's totals row, before the
\* next group's first student row.
C4_TotalsInterleaved ==
    g_pc = "done" =>
        g_file.rows =
            Concat([i \in 1..Len(GroupTeachers) |->
                       StudentRowsOf(GroupTeachers[i]) \o <<BlankRow, BlankRow>>
                           \o <<class_totals[i]>>])

\* C4 (amended): in the output every group's student rows are followed by
\* exactly two blank rows and then by the next group's first student row; the
\* totals rows, one per group and in group order, form a final block after the
\* last group's blank rows.
C4_TotalsAtEnd ==
    g_pc = "done" =>
        /\ Len(class_totals) = Len(GroupTeachers)
        /\ \A i \in 1..Len(class_totals) : class_totals[i]["Teacher"] = GroupTeachers[i]
        /\ g_file.rows =
               Concat([i \in 1..Len(GroupTeachers) |->
                          StudentRowsOf(GroupTeachers[i]) \o <<BlankRow, BlankRow>>])
                   \o class_totals

\* an output of two groups, one of them with two students
C4_Witness ==
    /\ g_pc = "done"
    /\ Len(GroupTeachers) = 2
    /\ \E i \in 1..2 : Len(StudentRowsOf(GroupTeachers[i])) = 2
    /\ Len(g_file.rows) = 9

\* the number a cell stands for: an empty cell is no count
CellValue(text) == IF IntParses(text) THEN IntValue(text) ELSE 0

ColumnSum(rows, k) == SumSeq([i \in 1..Len(rows) |-> CellValue(rows[i][k])])

\* C5: the totals row of every group holds in every column the sum of the
\* group's student-row values in that column that parse as integers, has the
\* Teacher column equal to the group's teacher label, and has the First Name
\* and Last Name columns blank.
C5_TotalsRow ==
    g_pc \in {"computed", "done"} =>
        \A i \in 1..Len(GroupTeachers) :
            LET total == class_totals[i]
                students == StudentRowsOf(GroupTeachers[i])
            IN  /\ total["Teacher"] = GroupTeachers[i]
                /\ total["First Name"] = <<>>
                /\ total["Last Name"] = <<>>
                /\ \A k \in Range(Fields) \ {"Teacher", "First Name", "Last Name"} :
                       CellValue(total[k]) = ColumnSum(students, k)

\* the student rows of the output: what precedes the block of totals rows,
\* without the blank rows
OutStudentRows ==
    SelectSeq(SubSeq(g_file.rows, 1, Len(g_file.rows) - Len(class_totals)),
              LAMBDA x : x # BlankRow)

Occurrences(x, rows) == Cardinality({i \in 1..Len(rows) : rows[i] = x})

\* 1-based place on the priority list; an unlisted teacher comes after the list
ListPlace(t) ==
    IF \E i \in 1..Len(teacher_order) : teacher_order[i] = t
    THEN CHOOSE i \in 1..Len(teacher_order) : teacher_order[i] = t
    ELSE Len(teacher_order) + 1

FirstPlace(t, rows) ==
    CHOOSE i \in 1..Len(rows) :
        rows[i]["Teacher"] = t /\ \A j \in 1..(i - 1) : rows[j]["Teacher"] # t

NameLeq(a, b) ==
    \/ StrLess(a["First Name"], b["First Name"])
    \/ /\ a["First Name"] = b["First Name"]
       /\ ~StrLess(b["Last Name"], a["Last Name"])

\* C6: the output holds the input rows whose Teacher and First Name are not
\* empty and no other student row; the groups of listed teachers come before
\* the groups of unlisted teachers and in list order; the groups of unlisted
\* teachers come in the order of their first rows in the sorted sequence; and
\* within a group the student rows are in non-decreasing (First Name, Last
\* Name) order.
C6_FilterAndOrder ==
    g_pc = "done" =>
        LET out == OutStudentRows
        IN  /\ \A i \in 1..Len(out) : out[i]["Teacher"] # <<>> /\ out[i]["First Name"] # <<>>
            /\ \A x \in GroupRows :
                   Occurrences(x, out) =
                       IF x["Teacher"] # <<>> /\ x["First Name"] # <<>>
                       THEN Occurrences(x, g_src) ELSE 0
            /\ \A i, j \in 1..Len(out) :
                   i < j =>
                       /\ ListPlace(out[i]["Teacher"]) <= ListPlace(out[j]["Teacher"])
                       /\ out[i]["Teacher"] = out[j]["Teacher"] =>
                              /\ NameLeq(out[i], out[j])
                              /\ \A k \in i..j : out[k]["Teacher"] = out[i]["Teacher"]
                       /\ (FirstPlace(out[i]["Teacher"], out) < FirstPlace(out[j]["Teacher"], out))
                              <=> (FirstPlace(out[i]["Teacher"], g_data)
                                      < FirstPlace(out[j]["Teacher"], g_data))

\* students of Smith, Jones, Smith with the priority list [Jones], the two
\* Smith rows sharing a first name and given in descending last-name order
C6_Witness ==
    /\ g_pc = "done"
    /\ teacher_order = << <<"J">> >>
    /\ Len(g_src) = 3
    /\ g_src[1]["Teacher"] = <<"S">> /\ g_src[2]["Teacher"] = <<"J">>
    /\ g_src[3]["Teacher"] = <<"S">>
    /\ g_src[1]["First Name"] = g_src[3]["First Name"]
    /\ StrLess(g_src[3]["Last Name"], g_src[1]["Last Name"])
    /\ GroupTeachers = << <<"J">>, <<"S">> >>

\* C7: a run of either stage that fails ends without having opened, created
\* or truncated its output file.
C7_NoFileOnFailure ==
    /\ pc = "failed" => ~out_file.opened
    /\ g_pc = "failed" => ~g_file.opened

\* ---------------------------------------------------------------------
\*             properties of parse_teacher_from_class_name
\* ---------------------------------------------------------------------
IsLowercaseLetter(c) == c \in Range(LowerCase) \cup {"é"}

HasLowercase(part) == \E i \in 1..Len(part) : IsLowercaseLetter(part[i])

FirstWith(parts, P(_)) ==
    parts[CHOOSE k \in 1..Len(parts) : P(parts[k]) /\ \A j \in 1..(k - 1) : ~P(parts[j])]

=============================================================================
